---- MODULE Spec2Model ----
(***************************************************************************)
(* Model of the data-acquisition layer of CENI-RJ:                         *)
(*   - ceni-dynamic-data.js        LocalCache + CENIApiClient.fetch        *)
(*   - ceni-repositorio-dinamico.js CacheManager (get/set)                 *)
(*   - Apps Script edition          CacheManager (salvar/buscar/limpar)    *)
(* localStorage is one key-value store shared by the three scripts.  Keys  *)
(* and serialized values are sequences of tokens, JSON values are records. *)
(***************************************************************************)
EXTENDS Integers, Sequences, FiniteSets, TLC

VARIABLES
    store,      \* localStorage: storage key -> stored (serialized) item
    now,        \* Date.now()
    calls,      \* one record per invocation of CENIApiClient.fetch
    quota,      \* TRUE while localStorage throws on every access
    faults,     \* number of failed attempts the environment has caused
    ops,        \* number of direct operations on the caches so far
    lastRead,   \* observation of the most recent direct cache read
    csv         \* the CSV parser: its input, its scanner and its output

vars == <<store, now, calls, quota, faults, ops, lastRead, csv>>

(***************************************************************************)
(* Bounds of the model                                                     *)
(***************************************************************************)
MaxCalls == 2
MaxFaults == 3
MaxOps == 3

Calls == 1..MaxCalls

(***************************************************************************)
(* Configuration objects                                                   *)
(***************************************************************************)
CACHE_DURATION == 1800000
RETRY_ATTEMPTS == 3
RETRY_DELAY == 1000
CONFIG_CACHE_DURATION == 5 * 60 * 1000
CACHE_EXPIRATION == 5 * 60 * 1000
CACHE_KEY == <<"ceni_", "repositorio_cache">>

(***************************************************************************)
(* JSON values.  t is the JavaScript type, v the content, error the value  *)
(* of the property `error` ("absent" when the value has no such property,  *)
(* "false" when it is present and falsy).                                  *)
(***************************************************************************)
JNull == [t |-> "null", v |-> "", error |-> "absent"]
JUndefined == [t |-> "undefined", v |-> "", error |-> "absent"]
JInvalid == [t |-> "invalid", v |-> "", error |-> "absent"]
JObj(v) == [t |-> "object", v |-> v, error |-> "absent"]
JObjErr(v, e) == [t |-> "object", v |-> v, error |-> e]
JNum(v) == [t |-> "number", v |-> v, error |-> "absent"]

\* an array, by the text TLC prints for its items
JArr(items) == [t |-> "array", v |-> ToString(items), error |-> "absent"]

\* an exception that leaves a function in place of a value
JThrow(e) == [t |-> "throw", v |-> e, error |-> "absent"]

\* ToBoolean of a JSON value: null, 0 and "" are falsy, objects are truthy
Truthy(j) ==
    CASE j.t \in {"null", "undefined", "invalid"} -> FALSE
      [] j.t = "number" -> j.v # "0"
      [] j.t = "string" -> j.v # ""
      [] OTHER -> TRUE

\* ToBoolean of the property data.error
TruthyError(j) == j.error \notin {"absent", "false"}

(***************************************************************************)
(* Inputs                                                                  *)
(***************************************************************************)
NoParams == <<>>

\* the (endpoint, params) pairs the callers pass to CENIApiClient.fetch
Requests ==
    { <<"documentos", NoParams>>,
      <<"eventos", << <<"tipo", "ata">>, <<"action", "x">> >> >> }

\* bodies a 2xx response can carry: not JSON, null, 0, an object, an object
\* with a falsy error property, an object with an error message
Bodies ==
    { JInvalid, JNull, JNum("0"), JObj("A"), JObjErr("A", "false"),
      JObjErr("", "erro") }

\* outcomes of fetch(url): rejection, non-2xx status, 2xx status
Responses == {"reject", "500", "200"}

(***************************************************************************)
(* Serialization                                                           *)
(***************************************************************************)
RECURSIVE StringifyPairs(_)
StringifyPairs(ps) ==
    IF ps = <<>> THEN <<>>
    ELSE LET p == Head(ps)
         IN  <<p[1], ":", p[2]>>
             \o (IF Len(ps) > 1 THEN <<",">> ELSE <<>>)
             \o StringifyPairs(Tail(ps))

\* JSON.stringify(params): the properties in insertion order
StringifyParams(params) == <<"{">> \o StringifyPairs(params) \o <<"}">>

\* the objects the caches store: {timestamp, data} and {dados, timestamp};
\* a property an object does not have reads as undefined
CacheData(t, data) == [timestamp |-> t, data |-> data, dados |-> JUndefined]
CacheDados(t, dados) == [timestamp |-> t, data |-> JUndefined, dados |-> dados]

\* JSON.stringify of such an object, and JSON.parse of a stored string,
\* which throws on a string that is not JSON
Stringify(obj) == [json |-> TRUE, obj |-> obj]
Garbage == [json |-> FALSE, obj |-> CacheData(0, JUndefined)]
ParseThrows(str) == ~str.json
Parse(str) == str.obj

(***************************************************************************)
(* LocalCache (ceni-dynamic-data.js)                                       *)
(***************************************************************************)
LocalCache_key(key) == <<"ceni_">> \o key

\* mutant: an item already stored is kept (the first write wins)
LocalCache_set_keepExisting(st, key, data, t, throws) ==
    LET cacheData == CacheData(t, data)
        k == LocalCache_key(key)
    IN  IF throws \/ k \in DOMAIN st THEN st
        ELSE [x \in DOMAIN st \cup {k} |->
                 IF x = k THEN Stringify(cacheData) ELSE st[x]]

\* mutant: overwriting an item keeps its old timestamp (a torn write)
LocalCache_set_torn(st, key, data, t, throws) ==
    LET k == LocalCache_key(key)
        ts == IF k \in DOMAIN st THEN st[k].obj.timestamp ELSE t
        cacheData == CacheData(ts, data)
    IN  IF throws THEN st
        ELSE [x \in DOMAIN st \cup {k} |->
                 IF x = k THEN Stringify(cacheData) ELSE st[x]]

LocalCache_set(st, key, data, t, throws) ==
    LET cacheData == CacheData(t, data)
        k == LocalCache_key(key)
    IN  IF throws THEN st
        ELSE [x \in DOMAIN st \cup {k} |->
                 IF x = k THEN Stringify(cacheData) ELSE st[x]]

\* mutant: the item is still served at the age CACHE_DURATION
LocalCache_get_inclusive(st, key, t, throws) ==
    LET k == LocalCache_key(key)
    IN  IF throws THEN JNull
        ELSE IF k \notin DOMAIN st THEN JNull
        ELSE IF ParseThrows(st[k]) THEN JNull
        ELSE LET cacheData == Parse(st[k])
                 age == t - cacheData.timestamp
             IN  IF age <= CACHE_DURATION THEN cacheData.data ELSE JNull

\* mutant: no try/catch around the access to localStorage and JSON.parse
LocalCache_get_noCatch(st, key, t, throws) ==
    LET k == LocalCache_key(key)
    IN  IF throws THEN JThrow("SecurityError")
        ELSE IF k \notin DOMAIN st THEN JNull
        ELSE IF ParseThrows(st[k]) THEN JThrow("SyntaxError")
        ELSE LET cacheData == Parse(st[k])
                 age == t - cacheData.timestamp
             IN  IF age < CACHE_DURATION THEN cacheData.data ELSE JNull

\* the value LocalCache.get returns
LocalCache_get(st, key, t, throws) ==
    LET k == LocalCache_key(key)
    IN  IF throws THEN JNull
        ELSE IF k \notin DOMAIN st THEN JNull
        ELSE IF ParseThrows(st[k]) THEN JNull
        ELSE LET cacheData == Parse(st[k])
                 age == t - cacheData.timestamp
             IN  IF age < CACHE_DURATION THEN cacheData.data ELSE JNull

\* mutant: an expired item is reported as a miss but left in the store
LocalCache_getStore_keepExpired(st, key, t, throws) == st

\* the store LocalCache.get leaves behind
LocalCache_getStore(st, key, t, throws) ==
    LET k == LocalCache_key(key)
    IN  IF throws THEN st
        ELSE IF k \notin DOMAIN st THEN st
        ELSE IF ParseThrows(st[k]) THEN st
        ELSE LET cacheData == Parse(st[k])
                 age == t - cacheData.timestamp
             IN  IF age < CACHE_DURATION THEN st
                 ELSE [x \in DOMAIN st \ {k} |-> st[x]]

\* key.startsWith('ceni_')
StartsWithCeni(k) == Len(k) >= 1 /\ k[1] = "ceni_"

\* mutant: the whole of localStorage is emptied
LocalCache_clear_everything(st, throws) == IF throws THEN st ELSE <<>>

\* LocalCache.clear(): every key of localStorage with the prefix is removed
LocalCache_clear(st, throws) ==
    IF throws THEN st
    ELSE [x \in {k \in DOMAIN st : ~StartsWithCeni(k)} |-> st[x]]

(***************************************************************************)
(* CacheManager (ceni-repositorio-dinamico.js)                             *)
(***************************************************************************)
CacheManager_key(key) == <<"ceni_">> \o key

CacheManager_set(st, key, data, t, throws) ==
    LET cacheItem == CacheData(t, data)
        k == CacheManager_key(key)
    IN  IF throws THEN st
        ELSE [x \in DOMAIN st \cup {k} |->
                 IF x = k THEN Stringify(cacheItem) ELSE st[x]]

\* the value CacheManager.get returns
CacheManager_get(st, key, t, throws) ==
    LET k == CacheManager_key(key)
    IN  IF throws THEN JNull
        ELSE IF k \notin DOMAIN st THEN JNull
        ELSE IF ParseThrows(st[k]) THEN JNull
        ELSE LET cacheItem == Parse(st[k])
                 isExpired == t - cacheItem.timestamp > CONFIG_CACHE_DURATION
             IN  IF isExpired THEN JNull ELSE cacheItem.data

\* the store CacheManager.get leaves behind
CacheManager_getStore(st, key, t, throws) ==
    LET k == CacheManager_key(key)
    IN  IF throws THEN st
        ELSE IF k \notin DOMAIN st THEN st
        ELSE IF ParseThrows(st[k]) THEN st
        ELSE LET cacheItem == Parse(st[k])
                 isExpired == t - cacheItem.timestamp > CONFIG_CACHE_DURATION
             IN  IF isExpired THEN [x \in DOMAIN st \ {k} |-> st[x]] ELSE st

\* CacheManager.clear()
CacheManager_clear(st, throws) ==
    IF throws THEN st
    ELSE [x \in {k \in DOMAIN st : ~StartsWithCeni(k)} |-> st[x]]

(***************************************************************************)
(* SheetsCSV.parseCSV and parseCSVLine (ceni-repositorio-dinamico.js).     *)
(* A string is the sequence of its characters.                             *)
(***************************************************************************)
QUOTE == "\""
COMMA == ","
NEWLINE == "\n"

\* white space String.prototype.trim removes
IsSpace(ch) == ch \in {" ", "\t", "\r", "\n"}

RECURSIVE TrimStart(_)
TrimStart(str) ==
    IF str # <<>> /\ IsSpace(Head(str)) THEN TrimStart(Tail(str)) ELSE str

RECURSIVE TrimEnd(_)
TrimEnd(str) ==
    IF str # <<>> /\ IsSpace(str[Len(str)])
    THEN TrimEnd(SubSeq(str, 1, Len(str) - 1))
    ELSE str

\* str.trim()
Trim(str) == TrimEnd(TrimStart(str))

RECURSIVE SplitFrom(_, _, _)
SplitFrom(str, piece, pieces) ==
    IF str = <<>> THEN Append(pieces, piece)
    ELSE IF Head(str) = NEWLINE
         THEN SplitFrom(Tail(str), <<>>, Append(pieces, piece))
         ELSE SplitFrom(Tail(str), Append(piece, Head(str)), pieces)

\* csvText.split('\n')
Split(csvText) == SplitFrom(csvText, <<>>, <<>>)

\* csvText.split('\n').filter(line => line.trim().length > 0)
Lines(csvText) == SelectSeq(Split(csvText), LAMBDA line : Len(Trim(line)) > 0)

\* lines 187-189: the scanner before the first character (i counts from 1)
ScanStart == [i |-> 1, current |-> <<>>, inQuotes |-> FALSE, result |-> <<>>]

\* line[i], undefined beyond the end of the line
CharAt(line, i) == IF i \in 1..Len(line) THEN line[i] ELSE "undefined"

\* mutant: every comma ends a field, inside quotes too
ScanChar_splitInQuotes(s, line) ==
    LET char == CharAt(line, s.i)
        nextChar == CharAt(line, s.i + 1)
    IN  IF char = QUOTE
        THEN IF s.inQuotes /\ nextChar = QUOTE
             THEN [s EXCEPT !.current = Append(@, QUOTE), !.i = @ + 2]
             ELSE [s EXCEPT !.inQuotes = ~@, !.i = @ + 1]
        ELSE IF char = COMMA
             THEN [s EXCEPT !.result = Append(@, Trim(s.current)),
                            !.current = <<>>, !.i = @ + 1]
             ELSE [s EXCEPT !.current = Append(@, char), !.i = @ + 1]

\* mutant: a doubled quote inside quotes closes and reopens the quotes
ScanChar_noEscape(s, line) ==
    LET char == CharAt(line, s.i)
    IN  IF char = QUOTE
        THEN [s EXCEPT !.inQuotes = ~@, !.i = @ + 1]
        ELSE IF char = COMMA /\ ~s.inQuotes
             THEN [s EXCEPT !.result = Append(@, Trim(s.current)),
                            !.current = <<>>, !.i = @ + 1]
             ELSE [s EXCEPT !.current = Append(@, char), !.i = @ + 1]

\* lines 191-211: one iteration of the loop, the increment of i included
ScanChar(s, line) ==
    LET char == CharAt(line, s.i)
        nextChar == CharAt(line, s.i + 1)
    IN  IF char = QUOTE
        THEN IF s.inQuotes /\ nextChar = QUOTE
             THEN [s EXCEPT !.current = Append(@, QUOTE), !.i = @ + 2]
             ELSE [s EXCEPT !.inQuotes = ~@, !.i = @ + 1]
        ELSE IF char = COMMA /\ ~s.inQuotes
             THEN [s EXCEPT !.result = Append(@, Trim(s.current)),
                            !.current = <<>>, !.i = @ + 1]
             ELSE [s EXCEPT !.current = Append(@, char), !.i = @ + 1]

\* the loop, from the scanner s to the end of the line
RECURSIVE Scan(_, _)
Scan(s, line) == IF s.i > Len(line) THEN s ELSE Scan(ScanChar(s, line), line)

\* mutant: a line that ends inside quotes loses its last field
ScanEnd_strict(s) == IF s.inQuotes THEN s.result ELSE Append(s.result, Trim(s.current))

\* lines 213-216: the last field is added and the fields returned
ScanEnd(s) == Append(s.result, Trim(s.current))

parseCSVLine(line) == ScanEnd(Scan(ScanStart, line))

\* An object is the sequence of its (key, value) properties in the order
\* the keys are enumerated: integer keys first, ascending, then the other
\* keys in the order they were created.
DigitValue(ch) ==
    CASE ch = "0" -> 0 [] ch = "1" -> 1 [] ch = "2" -> 2 [] ch = "3" -> 3
      [] ch = "4" -> 4 [] ch = "5" -> 5 [] ch = "6" -> 6 [] ch = "7" -> 7
      [] ch = "8" -> 8 [] OTHER -> 9

IsDigit(ch) == ch \in {"0", "1", "2", "3", "4", "5", "6", "7", "8", "9"}

\* the key is the canonical decimal numeral of an array index
IsIndexKey(key) ==
    /\ key # <<>>
    /\ Len(key) <= 9
    /\ \A i \in 1..Len(key) : IsDigit(key[i])
    /\ Len(key) > 1 => key[1] # "0"

RECURSIVE IndexValue(_)
IndexValue(key) ==
    IF key = <<>> THEN 0
    ELSE 10 * IndexValue(SubSeq(key, 1, Len(key) - 1)) + DigitValue(key[Len(key)])

HasKey(obj, key) == \E i \in 1..Len(obj) : obj[i][1] = key

\* obj[key] = value
SetProperty(obj, key, value) ==
    IF HasKey(obj, key)
    THEN [i \in 1..Len(obj) |->
             IF obj[i][1] = key THEN <<key, value>> ELSE obj[i]]
    ELSE IF IsIndexKey(key)
    THEN LET before == Cardinality({i \in 1..Len(obj) :
                          /\ IsIndexKey(obj[i][1])
                          /\ IndexValue(obj[i][1]) < IndexValue(key)})
         IN  SubSeq(obj, 1, before) \o << <<key, value>> >>
                 \o SubSeq(obj, before + 1, Len(obj))
    ELSE Append(obj, <<key, value>>)

\* values[index] || '' (index counts from 1)
ValueAt(values, index) ==
    IF index <= Len(values) /\ values[index] # <<>> THEN values[index] ELSE <<>>

\* lines 170-173: headers.forEach(...) over the first n headers
RECURSIVE BuildObj(_, _, _)
BuildObj(headers, values, n) ==
    IF n = 0 THEN <<>>
    ELSE SetProperty(BuildObj(headers, values, n - 1),
                     headers[n], ValueAt(values, n))

parseCSV(csvText) ==
    LET lines == Lines(csvText)
    IN  IF Len(lines) < 2 THEN <<>>
        ELSE LET headers == parseCSVLine(lines[1])
             IN  [r \in 1..(Len(lines) - 1) |->
                     BuildObj(headers, parseCSVLine(lines[r + 1]), Len(headers))]

\* the parser before it is given a text
NoCsv ==
    [pc |-> "none", text |-> <<>>, scan |-> ScanStart, commas |-> 0,
     values |-> <<>>, data |-> <<>>]

(***************************************************************************)
(* CacheManager (Apps Script edition)                                      *)
(***************************************************************************)
CacheManager_salvar(st, dados, t, throws) ==
    LET cache == CacheDados(t, dados)
    IN  IF throws THEN st
        ELSE [x \in DOMAIN st \cup {CACHE_KEY} |->
                 IF x = CACHE_KEY THEN Stringify(cache) ELSE st[x]]

CacheManager_limpar(st, throws) ==
    IF throws THEN st ELSE [x \in DOMAIN st \ {CACHE_KEY} |-> st[x]]

\* the value CacheManager.buscar returns
CacheManager_buscar(st, t, throws) ==
    IF throws THEN JNull
    ELSE IF CACHE_KEY \notin DOMAIN st THEN JNull
    ELSE IF ParseThrows(st[CACHE_KEY]) THEN JNull
    ELSE LET cache == Parse(st[CACHE_KEY])
             idade == t - cache.timestamp
         IN  IF idade > CACHE_EXPIRATION THEN JNull ELSE cache.dados

\* the store CacheManager.buscar leaves behind
CacheManager_buscarStore(st, t, throws) ==
    IF throws THEN st
    ELSE IF CACHE_KEY \notin DOMAIN st THEN st
    ELSE IF ParseThrows(st[CACHE_KEY]) THEN st
    ELSE LET cache == Parse(st[CACHE_KEY])
             idade == t - cache.timestamp
         IN  IF idade > CACHE_EXPIRATION THEN CacheManager_limpar(st, throws)
             ELSE st

(***************************************************************************)
(* CENIApiClient.fetch (ceni-dynamic-data.js)                              *)
(***************************************************************************)
CacheKey(endpoint, params) == <<endpoint, "_">> \o StringifyParams(params)

RECURSIVE Pow2(_)
Pow2(n) == IF n <= 0 THEN 1 ELSE 2 * Pow2(n - 1)

RECURSIVE DropName(_, _)
DropName(q, name) ==
    IF q = <<>> THEN <<>>
    ELSE IF Head(q)[1] = name THEN DropName(Tail(q), name)
    ELSE <<Head(q)>> \o DropName(Tail(q), name)

RECURSIVE SetName(_, _, _)
\* URLSearchParams.set: replace the first pair of that name, drop the others,
\* append when there is none
SetName(q, name, value) ==
    IF q = <<>> THEN << <<name, value>> >>
    ELSE IF Head(q)[1] = name
         THEN << <<name, value>> >> \o DropName(Tail(q), name)
    ELSE <<Head(q)>> \o SetName(Tail(q), name, value)

\* new URLSearchParams(params); queryParams.set('action', endpoint)
BuildQuery(endpoint, params) == SetName(params, "action", endpoint)

NoOutcome == [status |-> "", body |-> JUndefined]

IdleCall ==
    [pc |-> "idle", endpoint |-> "", params |-> NoParams, attempt |-> 0,
     wakeAt |-> 0, issued |-> <<>>, delays |-> <<>>, got |-> NoOutcome,
     result |-> JUndefined, error |-> ""]

\* lines 72-88: cache lookup, then either the cached value or the request.
\* LocalCache.get is called outside the try block: if it threw, the promise
\* would reject with its exception.
FetchEnter(call, endpoint, params, attempt, cached) ==
    LET c == [call EXCEPT !.endpoint = endpoint, !.params = params,
                          !.attempt = attempt, !.got = NoOutcome, !.wakeAt = 0]
    IN  IF cached.t = "throw"
        THEN [c EXCEPT !.pc = "rejected", !.error = cached.v]
        ELSE IF Truthy(cached)
        THEN [c EXCEPT !.pc = "resolved", !.result = cached]
        ELSE [c EXCEPT !.pc = "fetching",
                       !.issued = Append(@, BuildQuery(endpoint, params))]

\* mutant: the exponent is the attempt number (delays 2d, 4d)
Catch_exponentOffByOne(call, error, t) ==
    IF call.attempt < RETRY_ATTEMPTS
    THEN LET delay == RETRY_DELAY * Pow2(call.attempt)
         IN  [call EXCEPT !.pc = "waiting", !.wakeAt = t + delay,
                          !.delays = Append(@, delay)]
    ELSE [call EXCEPT !.pc = "rejected", !.error = error]

\* mutant: after the last attempt a generic error replaces the one caught
Catch_genericError(call, error, t) ==
    IF call.attempt < RETRY_ATTEMPTS
    THEN LET delay == RETRY_DELAY * Pow2(call.attempt - 1)
         IN  [call EXCEPT !.pc = "waiting", !.wakeAt = t + delay,
                          !.delays = Append(@, delay)]
    ELSE [call EXCEPT !.pc = "rejected", !.error = "Error"]

\* mutant: the catch block retries whatever the attempt number
Catch_neverGivesUp(call, error, t) ==
    LET delay == RETRY_DELAY * Pow2(call.attempt - 1)
    IN  [call EXCEPT !.pc = "waiting", !.wakeAt = t + delay,
                     !.delays = Append(@, delay)]

\* lines 106-119: the catch block
Catch(call, error, t) ==
    IF call.attempt < RETRY_ATTEMPTS
    THEN LET delay == RETRY_DELAY * Pow2(call.attempt - 1)
         IN  [call EXCEPT !.pc = "waiting", !.wakeAt = t + delay,
                          !.delays = Append(@, delay)]
    ELSE [call EXCEPT !.pc = "rejected", !.error = error]

\* mutant: the payload's error property is not looked at
PayloadThrows_ignoreError(data) == data.t \in {"null", "undefined"}

\* lines 96-98: which parsed payloads are thrown as errors (reading a
\* property of null is a TypeError)
PayloadThrows(data) == data.t \in {"null", "undefined"} \/ TruthyError(data)

PayloadError(data) ==
    IF data.t \in {"null", "undefined"} THEN "TypeError" ELSE data.error

\* lines 88-92: await fetch(url) settled with r
OnResponse(call, r, t) ==
    CASE r = "reject" -> Catch(call, "TypeError", t)
      [] r = "500" -> Catch(call, "HTTP 500", t)
      [] OTHER -> [call EXCEPT !.pc = "parsing"]

\* lines 94-104: await response.json() settled with data
OnBody(call, data, t) ==
    IF data.t = "invalid" THEN Catch(call, "SyntaxError", t)
    ELSE IF PayloadThrows(data) THEN Catch(call, PayloadError(data), t)
    ELSE [call EXCEPT !.pc = "resolved", !.result = data]

\* line 101: the cache after response.json() settled with data
StoreOnBody(st, call, data, t, throws) ==
    IF data.t = "invalid" \/ PayloadThrows(data) THEN st
    ELSE LocalCache_set(st, CacheKey(call.endpoint, call.params), data, t, throws)

NoRead ==
    [op |-> "none", kind |-> "none", present |-> FALSE, age |-> 0,
     held |-> JNull, value |-> JNull, removed |-> FALSE]

Init ==
    /\ store = <<>>
    /\ now = 0
    /\ calls = [c \in Calls |-> IdleCall]
    /\ quota = FALSE
    /\ faults = 0
    /\ ops = 0
    /\ lastRead = NoRead
    /\ csv = NoCsv

\* CENIApiClient.fetch(endpoint, params) is invoked
Call(c, endpoint, params) ==
    /\ calls[c].pc = "idle"
    /\ c > 1 => calls[c - 1].pc # "idle"
    /\ LET key == CacheKey(endpoint, params)
           cached == LocalCache_get(store, key, now, quota)
       IN  /\ store' = LocalCache_getStore(store, key, now, quota)
           /\ calls' = [calls EXCEPT ![c] = FetchEnter(@, endpoint, params, 1, cached)]
    /\ UNCHANGED <<now, quota, faults, ops, lastRead, csv>>

\* the environment makes an attempt fail, within its budget of faults
Fault(failed) ==
    IF failed THEN faults < MaxFaults /\ faults' = faults + 1
    ELSE UNCHANGED faults

\* await fetch(url) settles
Response(c, r) ==
    /\ calls[c].pc = "fetching"
    /\ Fault(r # "200")
    /\ calls' = [calls EXCEPT ![c] =
                    [OnResponse(@, r, now) EXCEPT !.got = [status |-> r, body |-> JUndefined]]]
    /\ UNCHANGED <<store, now, quota, ops, lastRead, csv>>

\* await response.json() settles
Body(c, data) ==
    /\ calls[c].pc = "parsing"
    /\ Fault(data.t = "invalid" \/ PayloadThrows(data))
    /\ store' = StoreOnBody(store, calls[c], data, now, quota)
    /\ calls' = [calls EXCEPT ![c] =
                    [OnBody(@, data, now) EXCEPT !.got = [status |-> "200", body |-> data]]]
    /\ UNCHANGED <<now, quota, ops, lastRead, csv>>

\* the backoff timer fires, at its deadline or later:
\* this.fetch(endpoint, params, attempt + 1)
Timer(c) ==
    /\ calls[c].pc = "waiting"
    /\ now' = IF now >= calls[c].wakeAt THEN now ELSE calls[c].wakeAt
    /\ LET call == calls[c]
           key == CacheKey(call.endpoint, call.params)
           cached == LocalCache_get(store, key, now', quota)
       IN  /\ store' = LocalCache_getStore(store, key, now', quota)
           /\ calls' = [calls EXCEPT ![c] =
                           FetchEnter(@, call.endpoint, call.params,
                                      call.attempt + 1, cached)]
    /\ UNCHANGED <<quota, faults, ops, lastRead, csv>>

\* no call is between its invocation and its settlement
Quiescent == \A c \in Calls : calls[c].pc \in {"idle", "resolved", "rejected"}

\* the last instant an item of LocalCache is fresh, and the first it is not
Deadlines ==
    UNION {{Parse(store[k]).timestamp + CACHE_DURATION + o : o \in {-1, 0}} :
              k \in DOMAIN store}

\* Between calls the clock reaches the expiry boundary of a stored item (a
\* request and a backoff last seconds, the lifetime of an item half an hour)
Tick ==
    /\ Quiescent
    /\ \E t \in Deadlines : t > now /\ now' = t
    /\ UNCHANGED <<store, calls, quota, faults, ops, lastRead, csv>>

(***************************************************************************)
(* SheetsCSV.fetchSheet (ceni-repositorio-dinamico.js) and                 *)
(* CENIRepositorio.init with AppsScriptAPI.buscarAba (Apps Script edition) *)
(***************************************************************************)
\* bodies of the published sheet: nothing, blank, a header alone, a header
\* with one row
SheetTexts ==
    { <<>>,
      <<" ", NEWLINE>>,
      <<"a", COMMA, "b">>,
      <<"a", COMMA, "b", NEWLINE, "1", COMMA, "2">> }

\* CONFIG.GID.REPOSITORIO
SheetGid == <<"GID_ABA_REPOSITORIO_AQUI">>

\* [], what fetchSheet returns when there is nothing to parse
EmptyArray == JArr(<<>>)

\* the query string of the CSV export
SheetQuery(gid) == << <<"format", "csv">>, <<"gid", gid[1]>> >>

\* lines 105-116: cache lookup, then either the cached rows or the request
FetchSheetEnter(call, gid, cachedData) ==
    LET c == [call EXCEPT !.endpoint = gid[1], !.attempt = 1]
    IN  IF Truthy(cachedData)
        THEN [c EXCEPT !.pc = "resolved", !.result = cachedData]
        ELSE [c EXCEPT !.pc = "sheet_fetching",
                       !.issued = Append(@, SheetQuery(gid))]

\* lines 143-146: the catch block logs the error and throws it again
FetchSheetCatch(call, error) == [call EXCEPT !.pc = "rejected", !.error = error]

\* lines 116-120: await fetch(url) settled with r
FetchSheetOnResponse(call, r) ==
    CASE r = "reject" -> FetchSheetCatch(call, "TypeError")
      [] r = "500" -> FetchSheetCatch(call, "Erro HTTP: 500")
      [] OTHER -> [call EXCEPT !.pc = "sheet_reading"]

\* lines 124-135: there is nothing to cache in this text
NothingParsed(csvText) == Len(Trim(csvText)) = 0 \/ Len(parseCSV(csvText)) = 0

\* lines 122-141: await response.text() settled with csvText
FetchSheetOnText(call, csvText) ==
    [call EXCEPT !.pc = "resolved",
                 !.result = IF NothingParsed(csvText) THEN EmptyArray
                            ELSE JArr(parseCSV(csvText))]

\* line 138: the cache after response.text() settled with csvText
StoreOnText(st, gid, csvText, t, throws) ==
    IF NothingParsed(csvText) THEN st
    ELSE CacheManager_set(st, gid, JArr(parseCSV(csvText)), t, throws)

\* SheetsCSV.fetchSheet(CONFIG.GID.REPOSITORIO) is invoked
FetchSheet(c) ==
    /\ calls[c].pc = "idle"
    /\ c > 1 => calls[c - 1].pc # "idle"
    /\ LET cachedData == CacheManager_get(store, SheetGid, now, quota)
       IN  /\ store' = CacheManager_getStore(store, SheetGid, now, quota)
           /\ calls' = [calls EXCEPT ![c] = FetchSheetEnter(@, SheetGid, cachedData)]
    /\ UNCHANGED <<now, quota, faults, ops, lastRead, csv>>

\* await fetch(url) settles
SheetResponse(c, r) ==
    /\ calls[c].pc = "sheet_fetching"
    /\ Fault(r # "200")
    /\ calls' = [calls EXCEPT ![c] =
                    [FetchSheetOnResponse(@, r) EXCEPT
                        !.got = [status |-> r, body |-> JUndefined]]]
    /\ UNCHANGED <<store, now, quota, ops, lastRead, csv>>

\* await response.text() settles
SheetText(c, csvText) ==
    /\ calls[c].pc = "sheet_reading"
    /\ store' = StoreOnText(store, SheetGid, csvText, now, quota)
    /\ calls' = [calls EXCEPT ![c] =
                    [FetchSheetOnText(@, csvText) EXCEPT
                        !.got = [status |-> "200", body |-> JUndefined]]]
    /\ UNCHANGED <<now, quota, faults, ops, lastRead, csv>>

\* CONFIG.APPS_SCRIPT_URL: the placeholder of the source, or a deployed URL
APPS_SCRIPT_PLACEHOLDER == "COLE_AQUI_A_URL_DO_SEU_WEB_APP"
AppsScriptUrls == {APPS_SCRIPT_PLACEHOLDER, "https://script.google.com/macros/s/ID/exec"}

\* the JSON envelope of the web app; json() may also reject, or give null
Envelope(sucesso, erro, dados) ==
    [t |-> "object", sucesso |-> sucesso, erro |-> erro, dados |-> dados]
EnvelopeInvalid == [Envelope(FALSE, "", JUndefined) EXCEPT !.t = "invalid"]
EnvelopeNull == [Envelope(FALSE, "", JUndefined) EXCEPT !.t = "null"]

Envelopes ==
    { EnvelopeInvalid, EnvelopeNull,
      Envelope(FALSE, "Aba desconhecida", JUndefined),
      Envelope(FALSE, "", JUndefined),
      Envelope(TRUE, "", JUndefined),
      Envelope(TRUE, "", JArr(<<>>)),
      Envelope(TRUE, "", JArr(<<"doc">>)) }

\* lines 144-150: the error buscarAba throws for this envelope, "" if none
EnvelopeError(json) ==
    CASE json.t = "invalid" -> "SyntaxError"
      [] json.t = "null" -> "TypeError"
      [] ~json.sucesso ->
            (IF json.erro # "" THEN json.erro
             ELSE "Erro desconhecido ao buscar dados")
      [] json.dados.t \in {"undefined", "null"} -> "TypeError"
      [] OTHER -> ""

\* lines 396-399: init catches the error and shows its message
InitCatch(call, message) == [call EXCEPT !.pc = "erro", !.error = message]

\* lines 379-383 and 130-138: cache lookup, then either the cached data,
\* the error of an unconfigured URL, or the request
InitEnter(call, url, dados) ==
    LET c == [call EXCEPT !.endpoint = "repositorio", !.attempt = 1]
    IN  IF Truthy(dados)
        THEN [c EXCEPT !.pc = "rendered", !.result = dados]
        ELSE IF url = APPS_SCRIPT_PLACEHOLDER
        THEN InitCatch(c, "URL do Apps Script não configurada. Configure a URL no código.")
        ELSE [c EXCEPT !.pc = "aba_fetching",
                       !.issued = Append(@, << <<"aba", "repositorio">> >>)]

\* lines 138-142: await fetch(url) settled with r
InitOnResponse(call, r) ==
    CASE r = "reject" -> InitCatch(call, "TypeError")
      [] r = "500" -> InitCatch(call, "Erro HTTP: 500")
      [] OTHER -> [call EXCEPT !.pc = "aba_parsing"]

\* lines 144-151 and 383-394: await resposta.json() settled with json
InitOnJson(call, json) ==
    IF EnvelopeError(json) # "" THEN InitCatch(call, EnvelopeError(json))
    ELSE [call EXCEPT !.pc = "rendered", !.result = json.dados]

\* line 384: the cache after resposta.json() settled with json
StoreOnJson(st, json, t, throws) ==
    IF EnvelopeError(json) # "" THEN st
    ELSE CacheManager_salvar(st, json.dados, t, throws)

\* CENIRepositorio.init() is invoked
RepositorioInit(c, url) ==
    /\ calls[c].pc = "idle"
    /\ c > 1 => calls[c - 1].pc # "idle"
    /\ LET dados == CacheManager_buscar(store, now, quota)
       IN  /\ store' = CacheManager_buscarStore(store, now, quota)
           /\ calls' = [calls EXCEPT ![c] = InitEnter(@, url, dados)]
    /\ UNCHANGED <<now, quota, faults, ops, lastRead, csv>>

\* await fetch(url) settles
AbaResponse(c, r) ==
    /\ calls[c].pc = "aba_fetching"
    /\ Fault(r # "200")
    /\ calls' = [calls EXCEPT ![c] =
                    [InitOnResponse(@, r) EXCEPT
                        !.got = [status |-> r, body |-> JUndefined]]]
    /\ UNCHANGED <<store, now, quota, ops, lastRead, csv>>

\* await resposta.json() settles
AbaJson(c, json) ==
    /\ calls[c].pc = "aba_parsing"
    /\ Fault(EnvelopeError(json) # "")
    /\ store' = StoreOnJson(store, json, now, quota)
    /\ calls' = [calls EXCEPT ![c] =
                    [InitOnJson(@, json) EXCEPT
                        !.got = [status |-> "200", body |-> JUndefined]]]
    /\ UNCHANGED <<now, quota, ops, lastRead, csv>>

\* the three clients side by side
NextClients ==
    \/ \E c \in Calls, r \in Requests : Call(c, r[1], r[2])
    \/ \E c \in Calls, r \in Responses : Response(c, r)
    \/ \E c \in Calls, b \in Bodies : Body(c, b)
    \/ \E c \in Calls : Timer(c)
    \/ \E c \in Calls : FetchSheet(c)
    \/ \E c \in Calls, r \in Responses : SheetResponse(c, r)
    \/ \E c \in Calls, csvText \in SheetTexts : SheetText(c, csvText)
    \/ \E c \in Calls, url \in AppsScriptUrls : RepositorioInit(c, url)
    \/ \E c \in Calls, r \in Responses : AbaResponse(c, r)
    \/ \E c \in Calls, json \in Envelopes : AbaJson(c, json)

SpecClients == Init /\ [][NextClients]_vars

(***************************************************************************)
(* The three caches, operated directly                                     *)
(***************************************************************************)
Modules == {"LocalCache", "CacheManager", "Repositorio"}

\* the key each script caches its data under
LocalKey == CacheKey("documentos", NoParams)

StorageKey(m) ==
    CASE m = "LocalCache" -> LocalCache_key(LocalKey)
      [] m = "CacheManager" -> CacheManager_key(SheetGid)
      [] OTHER -> CACHE_KEY

Lifetime(m) ==
    CASE m = "LocalCache" -> CACHE_DURATION
      [] m = "CacheManager" -> CONFIG_CACHE_DURATION
      [] OTHER -> CACHE_EXPIRATION

\* the data property of the object module m stores
Held(m, obj) == IF m = "Repositorio" THEN obj.dados ELSE obj.data

CacheValues == {JObj("A"), JNum("0")}

Readable(st, k) == k \in DOMAIN st /\ ~ParseThrows(st[k])

\* LocalCache.set(key, d), CacheManager.set(gid, d), CacheManager.salvar(d)
CacheWrite(m, d) ==
    /\ ops < MaxOps
    /\ ops' = ops + 1
    /\ store' = CASE m = "LocalCache" -> LocalCache_set(store, LocalKey, d, now, quota)
                  [] m = "CacheManager" -> CacheManager_set(store, SheetGid, d, now, quota)
                  [] OTHER -> CacheManager_salvar(store, d, now, quota)
    /\ lastRead' = [NoRead EXCEPT !.op = m, !.kind = "write", !.value = d]
    /\ UNCHANGED <<now, calls, quota, faults, csv>>

\* LocalCache.get(key), CacheManager.get(gid), CacheManager.buscar()
CacheRead(m) ==
    /\ ops < MaxOps
    /\ ops' = ops + 1
    /\ store' = CASE m = "LocalCache" -> LocalCache_getStore(store, LocalKey, now, quota)
                  [] m = "CacheManager" -> CacheManager_getStore(store, SheetGid, now, quota)
                  [] OTHER -> CacheManager_buscarStore(store, now, quota)
    /\ LET k == StorageKey(m)
           present == Readable(store, k)
       IN  lastRead' =
              [op |-> m, kind |-> "read", present |-> present,
               age |-> IF present THEN now - Parse(store[k]).timestamp ELSE 0,
               held |-> IF present THEN Held(m, Parse(store[k])) ELSE JNull,
               value |-> CASE m = "LocalCache" -> LocalCache_get(store, LocalKey, now, quota)
                           [] m = "CacheManager" -> CacheManager_get(store, SheetGid, now, quota)
                           [] OTHER -> CacheManager_buscar(store, now, quota),
               removed |-> k \in DOMAIN store /\ k \notin DOMAIN store']
    /\ UNCHANGED <<now, calls, quota, faults, csv>>

\* LocalCache.clear(), CacheManager.clear(), CacheManager.limpar()
CacheClear(m) ==
    /\ ops < MaxOps
    /\ ops' = ops + 1
    /\ store' = CASE m = "LocalCache" -> LocalCache_clear(store, quota)
                  [] m = "CacheManager" -> CacheManager_clear(store, quota)
                  [] OTHER -> CacheManager_limpar(store, quota)
    /\ lastRead' = [NoRead EXCEPT !.op = m, !.kind = "clear"]
    /\ UNCHANGED <<now, calls, quota, faults, csv>>

\* the instants around the end of the lifetime of a stored item
Boundaries ==
    UNION {{Parse(store[StorageKey(m)]).timestamp + Lifetime(m) + o : o \in {-1, 0, 1}} :
              m \in {x \in Modules : Readable(store, StorageKey(x))}}

\* the clock reaches one of them
Elapse ==
    /\ \E t \in Boundaries : t > now /\ now' = t
    /\ UNCHANGED <<store, calls, quota, faults, ops, lastRead, csv>>

NextCache ==
    \/ \E m \in Modules, d \in CacheValues : CacheWrite(m, d)
    \/ \E m \in Modules : CacheRead(m)
    \/ \E m \in Modules : CacheClear(m)
    \/ Elapse

\* the caches alone, with a working localStorage
SpecCache == Init /\ [][NextCache]_vars

\* localStorage left by an earlier version: strings that are not JSON
GarbageStore == [k \in {StorageKey(m) : m \in Modules} |-> Garbage]

\* a session that starts with unparsable strings in localStorage, and in
\* which localStorage may throw on every access (disabled, or its quota
\* exhausted)
InitFaulty ==
    /\ store = GarbageStore
    /\ quota \in BOOLEAN
    /\ now = 0
    /\ calls = [c \in Calls |-> IdleCall]
    /\ faults = 0
    /\ ops = 0
    /\ lastRead = NoRead
    /\ csv = NoCsv

\* a page runs the API client or operates the caches of the repository
NextFaulty ==
    \/ \E c \in Calls, r \in Requests : ops = 0 /\ Call(c, r[1], r[2])
    \/ \E c \in Calls, r \in Responses : Response(c, r)
    \/ \E c \in Calls, b \in Bodies : Body(c, b)
    \/ \E c \in Calls : Timer(c)
    \/ \E m \in Modules, d \in CacheValues : calls[1].pc = "idle" /\ CacheWrite(m, d)
    \/ \E m \in Modules : calls[1].pc = "idle" /\ CacheRead(m)

SpecFaulty == InitFaulty /\ [][NextFaulty]_vars

Next ==
    \/ \E c \in Calls, r \in Requests : Call(c, r[1], r[2])
    \/ \E c \in Calls, r \in Responses : Response(c, r)
    \/ \E c \in Calls, b \in Bodies : Body(c, b)
    \/ \E c \in Calls : Timer(c)
    \/ Tick

Spec == Init /\ [][Next]_vars

(***************************************************************************)
(* The cache key: one mapping, its keys added in two orders                *)
(***************************************************************************)
\* { tipo: 'ata', ano: '2025' } and { ano: '2025', tipo: 'ata' }
ParamsTipoAno == << <<"tipo", "ata">>, <<"ano", "2025">> >>
ParamsAnoTipo == << <<"ano", "2025">>, <<"tipo", "ata">> >>

KeyRequests == { <<"documentos", ParamsTipoAno>>, <<"documentos", ParamsAnoTipo>> }

\* a payload that is cached and one that is a failure
KeyBodies == { JObj("A"), JObjErr("", "erro") }

NextKey ==
    \/ \E c \in Calls, r \in KeyRequests : Call(c, r[1], r[2])
    \/ \E c \in Calls, r \in Responses : Response(c, r)
    \/ \E c \in Calls, b \in KeyBodies : Body(c, b)
    \/ \E c \in Calls : Timer(c)

\* callers that pass the same filter, built in different orders
SpecKey == Init /\ [][NextKey]_vars

(***************************************************************************)
(* The CSV parser, applied to bounded inputs                               *)
(***************************************************************************)
MaxLineLen == 6
MaxRows == 3

\* the characters of a line: letters, the separator, the quote, a blank
LineChars == {"a", "b", COMMA, QUOTE, " "}

\* every line of at most MaxLineLen characters
LineInputs == UNION {[1..n -> LineChars] : n \in 0..MaxLineLen}

InitLine ==
    /\ store = <<>>
    /\ now = 0
    /\ calls = [c \in Calls |-> IdleCall]
    /\ quota = FALSE
    /\ faults = 0
    /\ ops = 0
    /\ lastRead = NoRead
    /\ \E line \in LineInputs : csv = [NoCsv EXCEPT !.pc = "scan", !.text = line]

\* one iteration of the loop of parseCSVLine; commas counts the commas the
\* scanner met while outside quotes
ScanStep ==
    /\ csv.pc = "scan"
    /\ csv.scan.i <= Len(csv.text)
    /\ csv' = [csv EXCEPT
                  !.scan = ScanChar(@, csv.text),
                  !.commas = IF CharAt(csv.text, csv.scan.i) = COMMA
                                /\ ~csv.scan.inQuotes
                             THEN @ + 1 ELSE @]
    /\ UNCHANGED <<store, now, calls, quota, faults, ops, lastRead>>

\* the loop is over: parseCSVLine returns
ScanFinish ==
    /\ csv.pc = "scan"
    /\ csv.scan.i > Len(csv.text)
    /\ csv' = [csv EXCEPT !.pc = "line", !.values = ScanEnd(csv.scan)]
    /\ UNCHANGED <<store, now, calls, quota, faults, ops, lastRead>>

NextLine == ScanStep \/ ScanFinish

\* parseCSVLine, character by character, on every short line
SpecLine == InitLine /\ [][NextLine]_vars

\* cells of a sheet: empty, a word, a number
CsvCells == {<<>>, <<"a">>, <<"1">>}

\* lines of one or two cells, a blank line, a header of years in descending
\* order, a line whose quote is never closed
CsvLines ==
    CsvCells
    \cup {x \o <<COMMA>> \o y : x \in CsvCells, y \in CsvCells}
    \cup { <<" ">>, <<"2", COMMA, "1">>, <<QUOTE, "a", COMMA, "1">> }

RECURSIVE JoinLines(_)
JoinLines(lines) ==
    IF lines = <<>> THEN <<>>
    ELSE IF Len(lines) = 1 THEN lines[1]
    ELSE lines[1] \o <<NEWLINE>> \o JoinLines(Tail(lines))

\* every text of at most MaxRows such lines
CsvTexts == {JoinLines(lines) : lines \in UNION {[1..n -> CsvLines] : n \in 0..MaxRows}}

InitCSV ==
    /\ store = <<>>
    /\ now = 0
    /\ calls = [c \in Calls |-> IdleCall]
    /\ quota = FALSE
    /\ faults = 0
    /\ ops = 0
    /\ lastRead = NoRead
    /\ \E csvText \in CsvTexts : csv = [NoCsv EXCEPT !.pc = "text", !.text = csvText]

\* SheetsCSV.parseCSV(csvText)
ParseCSV ==
    /\ csv.pc = "text"
    /\ csv' = [csv EXCEPT !.pc = "parsed", !.data = parseCSV(csv.text)]
    /\ UNCHANGED <<store, now, calls, quota, faults, ops, lastRead>>

\* SheetsCSV.parseCSVLine(line)
ParseCSVLine ==
    /\ csv.pc = "text"
    /\ csv' = [csv EXCEPT !.pc = "line", !.values = parseCSVLine(csv.text)]
    /\ UNCHANGED <<store, now, calls, quota, faults, ops, lastRead>>

NextCSV == ParseCSV \/ ParseCSVLine

\* the two functions of the parser, applied to every small text
SpecCSV == InitCSV /\ [][NextCSV]_vars

(***************************************************************************)
(* The caches in a localStorage that other scripts of the site use too     *)
(***************************************************************************)
\* items of other scripts: two keys without the prefix (one of them a
\* proper prefix of it) and one key that has the prefix by coincidence
ForeignStore ==
    (<<"tema">> :> Garbage)
    @@ (<<"ceni">> :> Stringify(CacheData(0, JObj("A"))))
    @@ (<<"ceni_", "tema">> :> Garbage)

InitClear ==
    /\ store = ForeignStore
    /\ now = 0
    /\ calls = [c \in Calls |-> IdleCall]
    /\ quota = FALSE
    /\ faults = 0
    /\ ops = 0
    /\ lastRead = NoRead
    /\ csv = NoCsv

NextClear ==
    \/ \E m \in Modules, d \in CacheValues : CacheWrite(m, d)
    \/ \E m \in Modules : CacheRead(m)
    \/ \E m \in Modules : CacheClear(m)
    \/ Elapse

SpecClear == InitClear /\ [][NextClear]_vars

(***************************************************************************)
(* The attempt chain to its end: every request, every body and every timer *)
(* eventually completes                                                    *)
(***************************************************************************)
\* the environment may make every attempt of every call fail
InitLive ==
    /\ store = <<>>
    /\ now = 0
    /\ calls = [c \in Calls |-> IdleCall]
    /\ quota = FALSE
    /\ faults = MaxFaults - RETRY_ATTEMPTS * MaxCalls
    /\ ops = 0
    /\ lastRead = NoRead
    /\ csv = NoCsv

\* overlapping calls of getDocumentos(), each attempt answered by an HTTP
\* error, by a payload with an error, or by a payload
LiveRequests == { <<"documentos", NoParams>> }
LiveResponses == {"500", "200"}

NextLive ==
    \/ \E c \in Calls, r \in LiveRequests : Call(c, r[1], r[2])
    \/ \E c \in Calls, r \in LiveResponses : Response(c, r)
    \/ \E c \in Calls, b \in KeyBodies : Body(c, b)
    \/ \E c \in Calls : Timer(c)

\* the promise of fetch(url), the promise of response.json() and the timer
\* of setTimeout of each call are eventually settled by the browser
Fairness ==
    \A c \in Calls :
        /\ WF_vars(\E r \in LiveResponses : Response(c, r))
        /\ WF_vars(\E b \in KeyBodies : Body(c, b))
        /\ WF_vars(Timer(c))

SpecLive == InitLive /\ [][NextLive]_vars /\ Fairness

(***************************************************************************)
(* Properties of CENIApiClient.fetch                                       *)
(***************************************************************************)
\* the storage key of a call
KeyOf(call) == LocalCache_key(CacheKey(call.endpoint, call.params))

\* this step ran the cache lookup of call c (its invocation or a retry)
Entered(c) ==
    /\ calls[c].pc \in {"idle", "waiting"}
    /\ calls'[c].pc \notin {"idle", "waiting"}

\* this step is the successful completion of an attempt of call c
Succeeded(c) == calls[c].pc = "parsing" /\ calls'[c].pc = "resolved"

\* st holds a readable item under k that has not reached CACHE_DURATION at t
Fresh(st, k, t) ==
    /\ k \in DOMAIN st
    /\ ~ParseThrows(st[k])
    /\ t - Parse(st[k]).timestamp < CACHE_DURATION

HasPair(q, pair) == \E i \in 1..Len(q) : q[i] = pair

\* the outcome of an attempt is a failure
Failed(got) ==
    \/ got.status \in {"reject", "500"}
    \/ /\ got.status = "200"
       /\ got.body # JUndefined
       /\ got.body.t \in {"invalid", "null"} \/ TruthyError(got.body)

\* the error an outcome stands for
ExpectedError(got) ==
    CASE got.status = "reject" -> "TypeError"
      [] got.status = "500" -> "HTTP 500"
      [] got.body.t = "invalid" -> "SyntaxError"
      [] got.body.t = "null" -> "TypeError"
      [] OTHER -> got.body.error

\* C1: a call that finds a non-expired item under its key returns the
\* item's value, whatever JSON value it is, issues no request and schedules
\* no delay
C1_FreshItemIsServed ==
    [][\A c \in Calls :
          (Entered(c) /\ Fresh(store, KeyOf(calls'[c]), now')) =>
              /\ calls'[c].pc = "resolved"
              /\ calls'[c].result = Parse(store[KeyOf(calls'[c])]).data
              /\ calls'[c].issued = calls[c].issued
              /\ calls'[c].delays = calls[c].delays]_vars

\* C2: a readable item is returned unchanged up to the age TTL - 1 and is
\* absent from the age TTL + 1 on; at the age TTL exactly it is absent for
\* LocalCache.get (age < CACHE_DURATION) and still returned by
\* CacheManager.get and CacheManager.buscar (expired when age > TTL)
C2_ExpiryBoundary ==
    (lastRead.kind = "read" /\ lastRead.present) =>
        LET ttl == Lifetime(lastRead.op)
        IN  /\ lastRead.age <= ttl - 1 => lastRead.value = lastRead.held
            /\ lastRead.age >= ttl + 1 => lastRead.value = JNull
            /\ lastRead.age = ttl =>
                  lastRead.value =
                      (IF lastRead.op = "LocalCache" THEN JNull ELSE lastRead.held)

\* C2 as stated: returned up to TTL - 1, absent from TTL + 1 on, and absent
\* only when older than its TTL
C2_AbsentOnlyWhenOlder ==
    (lastRead.kind = "read" /\ lastRead.present) =>
        LET ttl == Lifetime(lastRead.op)
        IN  /\ lastRead.age <= ttl - 1 => lastRead.value = lastRead.held
            /\ lastRead.age >= ttl + 1 => lastRead.value = JNull
            /\ lastRead.value = JNull => lastRead.age > ttl

\* LocalCache.get read an item whose age is exactly CACHE_DURATION
C2_Witness ==
    /\ lastRead.kind = "read"
    /\ lastRead.op = "LocalCache"
    /\ lastRead.present
    /\ lastRead.held = JObj("A")
    /\ lastRead.age = CACHE_DURATION
    /\ lastRead.value = JNull

\* C3: the attempt counter starts at 1, the delay before attempt k+1 is
\* RETRY_DELAY * 2^(k-1) (d, then 2d), and an attempt that succeeds resolves
\* the call with that attempt's payload
C3_ExponentialBackoff ==
    \A c \in Calls :
        LET call == calls[c]
            schedule == <<RETRY_DELAY, 2 * RETRY_DELAY, 4 * RETRY_DELAY>>
        IN  call.pc # "idle" =>
              /\ call.attempt \in 1..RETRY_ATTEMPTS
              /\ Len(call.delays) =
                    (IF call.pc = "waiting" THEN call.attempt ELSE call.attempt - 1)
              /\ call.delays = SubSeq(schedule, 1, Len(call.delays))
              /\ call.pc = "waiting" => call.wakeAt <= now + call.delays[call.attempt]
              /\ (call.pc = "resolved" /\ call.got.status = "200") =>
                    call.result = call.got.body

\* two failures, then the third attempt succeeds
C3_Witness ==
    \E c \in Calls :
        /\ calls[c].pc = "resolved"
        /\ calls[c].attempt = 3
        /\ calls[c].got.status = "200"
        /\ calls[c].result = JObj("A")
        /\ calls[c].delays = <<RETRY_DELAY, 2 * RETRY_DELAY>>

\* C4: when every attempt up to RETRY_ATTEMPTS fails the call rejects with
\* the error of the last attempt, returns no value, and waits no delay
\* after the last failure
C4_RejectsWithLastError ==
    \A c \in Calls :
        LET call == calls[c]
        IN  /\ call.pc = "rejected" =>
                /\ call.attempt = RETRY_ATTEMPTS
                /\ Failed(call.got)
                /\ call.error = ExpectedError(call.got)
                /\ call.result = JUndefined
                /\ call.wakeAt = 0
                /\ Len(call.delays) = RETRY_ATTEMPTS - 1
                /\ Len(call.issued) = RETRY_ATTEMPTS
            /\ Failed(call.got) =>
                /\ call.pc = (IF call.attempt < RETRY_ATTEMPTS
                              THEN "waiting" ELSE "rejected")
                /\ call.result = JUndefined

\* a call rejected with the error of its third response
C4_Witness ==
    \E c \in Calls :
        /\ calls[c].pc = "rejected"
        /\ calls[c].got.status = "200"
        /\ calls[c].got.body = JObjErr("", "erro")
        /\ calls[c].error = "erro"

\* C5: a successful attempt stores its payload under the call's key with
\* the time of the write and returns the value stored, and a later call with
\* that key within the lifetime returns the stored payload
C5_StoredThenServed ==
    [][\A c \in Calls :
          /\ Succeeded(c) =>
                /\ KeyOf(calls[c]) \in DOMAIN store'
                /\ ~ParseThrows(store'[KeyOf(calls[c])])
                /\ Parse(store'[KeyOf(calls[c])]) =
                      CacheData(now, calls'[c].result)
                /\ calls'[c].result = calls'[c].got.body
          /\ (Entered(c) /\ Fresh(store, KeyOf(calls'[c]), now')) =>
                /\ calls'[c].pc = "resolved"
                /\ calls'[c].result = Parse(store[KeyOf(calls'[c])]).data]_vars

\* C6: a non-2xx status and a payload with a (truthy) error property are the
\* same failure: nothing is written and the retry policy applies; no stored
\* item holds such a payload, nor anything that did not come from a 2xx
\* response
C6_FailuresNeverCached ==
    [][/\ \A k \in DOMAIN store' :
             /\ ~ParseThrows(store'[k])
             /\ ~TruthyError(Parse(store'[k]).data)
             /\ Parse(store'[k]).data.t \notin {"invalid", "null", "undefined"}
       /\ \A c \in Calls :
             (calls[c].pc \in {"fetching", "parsing"} /\ Failed(calls'[c].got)) =>
                 /\ store' = store
                 /\ calls'[c].pc = (IF calls[c].attempt < RETRY_ATTEMPTS
                                    THEN "waiting" ELSE "rejected")
                 /\ calls'[c].pc = "waiting" =>
                       calls'[c].delays =
                           Append(calls[c].delays,
                                  RETRY_DELAY * Pow2(calls[c].attempt - 1))
       /\ store' # store =>
             \E c \in Calls :
                 \/ Entered(c)
                 \/ /\ Succeeded(c)
                    /\ calls'[c].got.status = "200"
                    /\ ~Failed(calls'[c].got)]_vars

\* one call waits after a 500, another after a payload with an error
C6_Witness ==
    \E c, d \in Calls :
        /\ calls[c].pc = "waiting" /\ calls[c].got.status = "500"
        /\ calls[d].pc = "waiting" /\ calls[d].got.body = JObjErr("", "erro")
        /\ calls[c].attempt = calls[d].attempt
        /\ calls[c].delays = calls[d].delays

\* C7: when localStorage throws on every access, or holds a string that is
\* not JSON, no call fails because of it: the lookup is a miss, the write is
\* skipped, the request is issued and its payload returned; a call rejects
\* only with the error of a failed attempt.  The same holds of the direct
\* reads and writes of the three caches.
C7_StorageFailuresAbsorbed ==
    [][/\ \A c \in Calls :
             /\ (Entered(c) /\ (quota \/ ~Readable(store, KeyOf(calls'[c])))) =>
                   /\ calls'[c].pc = "fetching"
                   /\ calls'[c].issued =
                         Append(calls[c].issued,
                                BuildQuery(calls'[c].endpoint, calls'[c].params))
                   /\ store' = store
             /\ (Succeeded(c) /\ quota) =>
                   /\ store' = store
                   /\ calls'[c].result = calls'[c].got.body
             /\ calls'[c].pc = "rejected" =>
                   /\ Failed(calls'[c].got)
                   /\ calls'[c].error = ExpectedError(calls'[c].got)
             /\ (calls'[c].pc = "resolved" /\ quota) =>
                   /\ calls'[c].got.status = "200"
                   /\ calls'[c].result = calls'[c].got.body
       /\ lastRead'.value.t # "throw"
       /\ (ops' # ops /\ lastRead'.kind = "read"
             /\ (quota \/ ~lastRead'.present)) =>
             /\ lastRead'.value = JNull
             /\ store' = store
       /\ (ops' # ops /\ lastRead'.kind = "write" /\ quota) =>
             store' = store]_vars

\* with localStorage throwing and an unparsable string under its key, a
\* call returned the payload of its request
C7_Witness ==
    /\ quota
    /\ calls[1].pc = "resolved"
    /\ calls[1].result = JObj("A")
    /\ KeyOf(calls[1]) \in DOMAIN store
    /\ ParseThrows(store[KeyOf(calls[1])])

\* C8: a call that finds no (truthy, fresh) item issues its own request,
\* whatever other calls are in flight for the same key, and each successful
\* attempt overwrites the item, so the item holds the payload written last
C8_NoDeduplication ==
    [][\A c \in Calls :
          /\ (Entered(c) /\ ~(/\ Fresh(store, KeyOf(calls'[c]), now')
                              /\ Truthy(Parse(store[KeyOf(calls'[c])]).data))) =>
                /\ calls'[c].pc = "fetching"
                /\ calls'[c].issued =
                      Append(calls[c].issued,
                             BuildQuery(calls'[c].endpoint, calls'[c].params))
          /\ Succeeded(c) =>
                /\ KeyOf(calls[c]) \in DOMAIN store'
                /\ Parse(store'[KeyOf(calls[c])]).data = calls'[c].got.body]_vars

\* two calls for one key were both answered by the network at the same
\* instant with different payloads; the item holds one of the two
C8_Witness ==
    /\ MaxCalls >= 2
    /\ calls[1].pc = "resolved" /\ calls[2].pc = "resolved"
    /\ KeyOf(calls[1]) = KeyOf(calls[2])
    /\ Len(calls[1].issued) = 1 /\ Len(calls[2].issued) = 1
    /\ calls[1].result = JObj("A")
    /\ calls[2].result = JObjErr("A", "false")
    /\ now = 0
    /\ Parse(store[KeyOf(calls[1])]).data = JObj("A")

\* C9: an item changes only by the write of one successful attempt, which
\* stores the complete pair (time of the write, its payload); a call served
\* from the cache returns the data of the item as stored
C9_AtomicItems ==
    [][/\ \A k \in DOMAIN store' :
             (k \notin DOMAIN store \/ store'[k] # store[k]) =>
                 \E c \in Calls :
                     /\ Succeeded(c)
                     /\ KeyOf(calls[c]) = k
                     /\ ~ParseThrows(store'[k])
                     /\ Parse(store'[k]) =
                           CacheData(now, calls'[c].got.body)
       /\ \A c \in Calls :
             (Entered(c) /\ calls'[c].pc = "resolved") =>
                 /\ Fresh(store, KeyOf(calls'[c]), now')
                 /\ calls'[c].result = Parse(store[KeyOf(calls'[c])]).data
                 /\ store' = store]_vars

\* an item was overwritten by a later write of an overlapping call
C9_Witness ==
    /\ MaxCalls >= 2
    /\ calls[1].pc = "resolved" /\ calls[2].pc = "resolved"
    /\ KeyOf(calls[1]) = KeyOf(calls[2])
    /\ calls[1].got.status = "200" /\ calls[2].got.status = "200"
    /\ calls[1].result # calls[2].result
    /\ KeyOf(calls[1]) \in DOMAIN store
    /\ Parse(store[KeyOf(calls[1])]).timestamp = RETRY_DELAY

\* C10: every request carries action=<endpoint> and every key of params
\* (a key named action included) with the value the caller gave
C10_QueryCarriesParams ==
    \A c \in Calls :
        \A i \in 1..Len(calls[c].issued) :
            /\ HasPair(calls[c].issued[i], <<"action", calls[c].endpoint>>)
            /\ \A j \in 1..Len(calls[c].params) :
                  HasPair(calls[c].issued[i], calls[c].params[j])

\* two params objects hold the same key-to-value mapping
SameMapping(p, q) ==
    {p[i] : i \in DOMAIN p} = {q[i] : i \in DOMAIN q}

\* C11: two calls with the same endpoint and the same key-to-value mapping
\* compute the same key whatever the order the keys were added in, so the
\* second call, within the lifetime of the item the first one wrote, is
\* served from that item and issues no request
C11_KeyIgnoresInsertionOrder ==
    [][\A c \in Calls : \A d \in Calls \ {c} :
          (/\ Entered(c)
           /\ calls[d].pc = "resolved"
           /\ calls[d].got.status = "200"
           /\ calls[d].endpoint = calls'[c].endpoint
           /\ SameMapping(calls[d].params, calls'[c].params)
           /\ Fresh(store, KeyOf(calls[d]), now')
           /\ Truthy(Parse(store[KeyOf(calls[d])]).data)) =>
              /\ KeyOf(calls'[c]) = KeyOf(calls[d])
              /\ calls'[c].pc = "resolved"
              /\ calls'[c].result = Parse(store[KeyOf(calls[d])]).data
              /\ calls'[c].issued = calls[c].issued]_vars

\* the store st without the item under k
Without(st, k) == [x \in DOMAIN st \ {k} |-> st[x]]

\* C12: a read that finds an item older than its lifetime removes that item
\* (and nothing else) and reports a miss; a read that finds a younger item
\* leaves the store unchanged; at the age of the lifetime exactly the read
\* does one or the other.  An item leaves the store only by such a read or
\* by a clear: never by a write, never when time passes.
C12_LazyEviction ==
    [][/\ (ops' # ops /\ lastRead'.kind = "read" /\ lastRead'.present) =>
             LET k == StorageKey(lastRead'.op)
                 ttl == Lifetime(lastRead'.op)
             IN  /\ lastRead'.age > ttl =>
                       /\ lastRead'.value = JNull
                       /\ store' = Without(store, k)
                 /\ lastRead'.age < ttl =>
                       /\ lastRead'.value = lastRead'.held
                       /\ store' = store
                 /\ lastRead'.age = ttl =>
                       \/ lastRead'.value = JNull /\ store' = Without(store, k)
                       \/ lastRead'.value = lastRead'.held /\ store' = store
       /\ (DOMAIN store \ DOMAIN store' # {}) =>
             /\ ops' # ops
             /\ \/ lastRead'.kind = "clear"
                \/ /\ lastRead'.kind = "read"
                   /\ lastRead'.present
                   /\ lastRead'.age >= Lifetime(lastRead'.op)
                   /\ DOMAIN store \ DOMAIN store' = {StorageKey(lastRead'.op)}
       /\ (ops' = ops) => store' = store]_vars

\* CacheManager.get found an item older than its lifetime and removed it,
\* and the item of the other script is still stored
C12_Witness ==
    /\ lastRead.kind = "read"
    /\ lastRead.op = "CacheManager"
    /\ lastRead.present
    /\ lastRead.age > CONFIG_CACHE_DURATION
    /\ lastRead.value = JNull
    /\ lastRead.removed
    /\ StorageKey("CacheManager") \notin DOMAIN store
    /\ CACHE_KEY \in DOMAIN store

\* the item a client variant caches its result under
VariantKey(call) ==
    CASE call.pc = "rendered" -> CACHE_KEY
      [] call.endpoint = SheetGid[1] -> CacheManager_key(SheetGid)
      [] OTHER -> KeyOf(call)

\* C13: in each of the three clients a request that fails is retried, and
\* the failure reaches the caller only after RETRY_ATTEMPTS requests with
\* increasing delays between them; a result that is not empty is in the
\* cache when it is returned
C13_EveryVariantRetries ==
    [][\A c \in Calls :
          /\ (/\ calls[c].pc \notin {"rejected", "erro"}
              /\ calls'[c].pc \in {"rejected", "erro"}
              /\ calls'[c].got.status # "") =>
                 /\ Len(calls'[c].issued) = RETRY_ATTEMPTS
                 /\ Len(calls'[c].delays) = RETRY_ATTEMPTS - 1
                 /\ \A i \in 1..(Len(calls'[c].delays) - 1) :
                       calls'[c].delays[i] < calls'[c].delays[i + 1]
          /\ (/\ calls[c].pc \in {"parsing", "sheet_reading", "aba_parsing"}
              /\ calls'[c].pc \in {"resolved", "rendered"}
              /\ calls'[c].result # EmptyArray) =>
                 /\ VariantKey(calls'[c]) \in DOMAIN store'
                 /\ Held(IF calls'[c].pc = "rendered" THEN "Repositorio" ELSE "LocalCache",
                         Parse(store'[VariantKey(calls'[c])])) = calls'[c].result]_vars

(***************************************************************************)
(* Properties of the CSV parser                                            *)
(***************************************************************************)
\* the keys of an object, as they are enumerated
Keys(obj) == [i \in 1..Len(obj) |-> obj[i][1]]

\* obj[key], the empty string standing for a key the object does not have
ValueOf(obj, key) ==
    IF HasKey(obj, key)
    THEN obj[CHOOSE i \in 1..Len(obj) : obj[i][1] = key][2]
    ELSE <<>>

\* no line ends inside quotes, every line has as many fields as the header
\* and every column has a name
WellFormed(csvText) ==
    LET lines == Lines(csvText)
    IN  /\ Len(lines) >= 2
        /\ \A r \in 1..Len(lines) :
              /\ ~Scan(ScanStart, lines[r]).inQuotes
              /\ Len(parseCSVLine(lines[r])) = Len(parseCSVLine(lines[1]))
        /\ \A i \in 1..Len(parseCSVLine(lines[1])) :
              parseCSVLine(lines[1])[i] # <<>>

\* C14: for a well-formed text with a header and at least one data row,
\* parseCSV returns one record per non-blank data line, in the order of the
\* lines, and the keys of each record are the header columns in header order
C14_OneRecordPerRow ==
    (csv.pc = "parsed" /\ WellFormed(csv.text)) =>
        LET lines == Lines(csv.text)
            headers == parseCSVLine(lines[1])
        IN  /\ Len(csv.data) = Len(lines) - 1
            /\ \A r \in 1..Len(csv.data) :
                  /\ Keys(csv.data[r]) = headers
                  /\ \A i \in 1..Len(headers) :
                        HasKey(csv.data[r], headers[i])

\* C15: a comma met inside quotes is appended to the field and ends no
\* field; the fields returned are one more than the commas met outside
\* quotes; "a,b" in quotes is the single field a,b
C15_QuotedCommaKeepsField ==
    [][/\ (csv.pc = "scan" /\ csv'.pc = "scan"
             /\ CharAt(csv.text, csv.scan.i) = COMMA /\ csv.scan.inQuotes) =>
             /\ csv'.scan.result = csv.scan.result
             /\ csv'.scan.current = Append(csv.scan.current, COMMA)
             /\ csv'.scan.inQuotes
       /\ csv'.pc = "scan" => Len(csv'.scan.result) = csv'.commas
       /\ csv'.pc = "line" => Len(csv'.values) = 1 + csv'.commas
       /\ (csv'.pc = "line" /\ csv'.text = <<QUOTE, "a", COMMA, "b", QUOTE>>) =>
             csv'.values = << <<"a", COMMA, "b">> >>]_vars

\* the line "a,b" (in quotes) was scanned to its end
C15_Witness ==
    /\ csv.pc = "line"
    /\ csv.text = <<QUOTE, "a", COMMA, "b", QUOTE>>
    /\ csv.commas = 0
    /\ csv.values = << <<"a", COMMA, "b">> >>

\* C16: a quote toggles the inside-quotes state and adds nothing, except
\* inside quotes before another quote: then one quote is appended, both
\* characters are consumed and the scanner stays inside quotes; no other
\* character changes the state; "a""b" in quotes is the field a"b
C16_EscapedQuote ==
    [][/\ (csv.pc = "scan" /\ csv'.pc = "scan") =>
             LET s == csv.scan
                 char == CharAt(csv.text, s.i)
                 nextChar == CharAt(csv.text, s.i + 1)
             IN  /\ (char = QUOTE /\ s.inQuotes /\ nextChar = QUOTE) =>
                       /\ csv'.scan.current = Append(s.current, QUOTE)
                       /\ csv'.scan.i = s.i + 2
                       /\ csv'.scan.inQuotes
                       /\ csv'.scan.result = s.result
                 /\ (char = QUOTE /\ ~(s.inQuotes /\ nextChar = QUOTE)) =>
                       /\ csv'.scan.inQuotes = ~s.inQuotes
                       /\ csv'.scan.current = s.current
                       /\ csv'.scan.i = s.i + 1
                       /\ csv'.scan.result = s.result
                 /\ char # QUOTE =>
                       /\ csv'.scan.inQuotes = s.inQuotes
                       /\ csv'.scan.i = s.i + 1
       /\ (csv'.pc = "line"
             /\ csv'.text = <<QUOTE, "a", QUOTE, QUOTE, "b", QUOTE>>) =>
             csv'.values = << <<"a", QUOTE, "b">> >>]_vars

\* the line "a""b" (in quotes) was scanned to its end
C16_Witness ==
    /\ csv.pc = "line"
    /\ csv.text = <<QUOTE, "a", QUOTE, QUOTE, "b", QUOTE>>
    /\ csv.values = << <<"a", QUOTE, "b">> >>

\* C17: in the record of a data line the value of the header column at
\* index i is the field of the line at index i, or the empty string when the
\* line has no such field, and the record has no key but the header columns
C17_PositionalValues ==
    (csv.pc = "parsed" /\ Len(Lines(csv.text)) >= 2) =>
        LET lines == Lines(csv.text)
            headers == parseCSVLine(lines[1])
        IN  \A r \in 1..Len(csv.data) :
               LET values == parseCSVLine(lines[r + 1])
               IN  /\ \A i \in 1..Len(headers) :
                         ValueOf(csv.data[r], headers[i]) =
                             (IF i <= Len(values) THEN values[i] ELSE <<>>)
                   /\ \A k \in 1..Len(csv.data[r]) :
                         \E i \in 1..Len(headers) :
                             csv.data[r][k][1] = headers[i]
                   /\ Len(csv.data[r]) <= Len(headers)

\* C18: both functions return for every text: parseCSV returns the empty
\* sequence for a text with fewer than two non-blank lines, and parseCSVLine
\* returns the fields the scan completed followed by the rest of the line,
\* trimmed, whether the scan ends inside quotes or not
C18_ParserNeverRaises ==
    /\ csv.pc \in {"text", "parsed", "line"}
    /\ csv.pc = "parsed" =>
          /\ Len(Lines(csv.text)) < 2 => csv.data = <<>>
          /\ Len(csv.data) <= Len(Lines(csv.text))
    /\ csv.pc = "line" =>
          LET s == Scan(ScanStart, csv.text)
          IN  /\ Len(csv.values) >= 1
              /\ csv.values = Append(s.result, Trim(s.current))

\* a line whose quote is never closed gave its one field, comma included
C18_Witness ==
    /\ csv.pc = "line"
    /\ csv.text = <<QUOTE, "a", COMMA, "1">>
    /\ Scan(ScanStart, csv.text).inQuotes
    /\ csv.values = << <<"a", COMMA, "1">> >>

(***************************************************************************)
(* Properties of the retry chain of CENIApiClient.fetch                    *)
(***************************************************************************)
\* this step is the retry of call c: its timer fired and fetch ran again
Retried(c) == calls[c].pc = "waiting" /\ calls'[c].pc # "waiting"

\* C19: a retry reads the cache before it issues a request: when it finds a
\* non-expired item under its key (stored by an overlapping call during the
\* delay) it returns the item's value and issues no request, otherwise it
\* issues one more request; a call issues at most RETRY_ATTEMPTS requests
C19_RetryReadsCache ==
    [][\A c \in Calls :
          /\ (Retried(c) /\ Fresh(store, KeyOf(calls[c]), now')) =>
                /\ calls'[c].pc = "resolved"
                /\ calls'[c].result = Parse(store[KeyOf(calls[c])]).data
                /\ calls'[c].issued = calls[c].issued
          /\ (Retried(c) /\ ~Fresh(store, KeyOf(calls[c]), now')) =>
                /\ calls'[c].pc = "fetching"
                /\ Len(calls'[c].issued) = Len(calls[c].issued) + 1
          /\ Len(calls'[c].issued) <= RETRY_ATTEMPTS]_vars

\* call c is between its invocation and its settlement
Pending(c) == calls[c].pc \in {"fetching", "parsing", "waiting"}

Settled(c) == calls[c].pc \in {"resolved", "rejected"}

\* C20: every call that was invoked settles; at every moment it has issued
\* at most RETRY_ATTEMPTS requests and waited at most RETRY_ATTEMPTS - 1
\* delays; its attempt counter starts at 1, grows by one at each retry and
\* never exceeds RETRY_ATTEMPTS
C20_EveryCallSettles ==
    /\ \A c \in Calls : Pending(c) ~> Settled(c)
    /\ [](\A c \in Calls :
             /\ Len(calls[c].issued) <= RETRY_ATTEMPTS
             /\ Len(calls[c].delays) <= RETRY_ATTEMPTS - 1
             /\ calls[c].pc # "idle" => calls[c].attempt \in 1..RETRY_ATTEMPTS
             /\ Len(calls[c].issued) <= calls[c].attempt)
    /\ [][\A c \in Calls :
             /\ calls[c].pc = "idle" => calls'[c].attempt \in {0, 1}
             /\ calls[c].pc # "idle" =>
                   calls'[c].attempt \in {calls[c].attempt, calls[c].attempt + 1}
             /\ calls'[c].attempt > calls[c].attempt <=>
                   (calls[c].pc \in {"idle", "waiting"} /\ calls'[c].pc # calls[c].pc)
             /\ Settled(c) => calls'[c] = calls[c]]_vars

\* every call was rejected after RETRY_ATTEMPTS failed requests
C20_Witness ==
    \A c \in Calls :
        /\ calls[c].pc = "rejected"
        /\ calls[c].attempt = RETRY_ATTEMPTS
        /\ Len(calls[c].issued) = RETRY_ATTEMPTS
        /\ Len(calls[c].delays) = RETRY_ATTEMPTS - 1

(***************************************************************************)
(* Properties of the clear operations                                      *)
(***************************************************************************)
\* C21: LocalCache.clear and CacheManager.clear remove every key that starts
\* with ceni_ and leave every other key with its value; the keys of the
\* three modules all start with ceni_, so either clear removes the items of
\* the other modules too; CacheManager.limpar removes the one key
\* ceni_repositorio_cache and nothing else
C21_ClearRemovesPrefix ==
    [][/\ \A m \in Modules : Head(StorageKey(m)) = "ceni_"
       /\ (ops' # ops /\ lastRead'.kind = "clear") =>
             IF lastRead'.op \in {"LocalCache", "CacheManager"}
             THEN /\ DOMAIN store' = {k \in DOMAIN store : Head(k) # "ceni_"}
                  /\ \A k \in DOMAIN store' : store'[k] = store[k]
             ELSE store' = Without(store, CACHE_KEY)]_vars

\* CacheManager.clear of the sheet edition ran after the other two modules
\* wrote their items: only the keys without the prefix are left
C21_Witness ==
    /\ lastRead.kind = "clear"
    /\ lastRead.op = "CacheManager"
    /\ ops = 3
    /\ DOMAIN store = {<<"tema">>, <<"ceni">>}
    /\ store[<<"tema">>] = Garbage
====
